---------------------------- MODULE Spec2Model ----------------------------
(***************************************************************************)
(* A model of the fastify-synology-chat plugin (index.js): registration,   *)
(* the form content-type parser, the inbound webhook route with its body   *)
(* schema, and the sendMessage decorator.                                  *)
(*                                                                         *)
(* Wire texts (request bodies, JSON texts, URLs) are strings, read one     *)
(* character at a time.  JavaScript values are tagged records:             *)
(*   [t |-> "str", s]   [t |-> "num", m, e]  (the number m / 10^e)         *)
(*   [t |-> "bool", b]  [t |-> "null"]       [t |-> "undef"]               *)
(*   [t |-> "arr", a]   (a sequence)                                       *)
(*   [t |-> "obj", o]   (a function from property names to values)         *)
(* The host framework (Fastify) is modelled by its request lifecycle only: *)
(* content-type parser, then body schema validation, then the route        *)
(* handler; its validator is a plain JSON-Schema evaluator and its JSON    *)
(* body parser is JSON.parse.                                              *)
(***************************************************************************)
EXTENDS Integers, Sequences, FiniteSets, TLC

(***************************************************************************)
(* JavaScript values                                                       *)
(***************************************************************************)
JStr(s) == [t |-> "str", s |-> s]

JNum(m, e) == [t |-> "num", m |-> m, e |-> e]

JInt(n) == JNum(n, 0)

JBool(b) == [t |-> "bool", b |-> b]

JNull == [t |-> "null"]

JUndefined == [t |-> "undef"]

JArr(a) == [t |-> "arr", a |-> a]

JObj(o) == [t |-> "obj", o |-> o]

EmptyMap == [k \in {} |-> JNull]

\* obj[key] = val as an own data property (a later definition replaces an
\* earlier one).
Put(o, key, val) == [k \in (DOMAIN o) \cup {key} |-> IF k = key THEN val ELSE o[k]]

(***************************************************************************)
(* Characters and numbers as text                                          *)
(***************************************************************************)
Ch(s, i) == IF i >= 1 /\ i <= Len(s) THEN SubSeq(s, i, i) ELSE ""

\* s.substring(i-1, j), clipped to the text.
Sub(s, i, j) == IF j > Len(s) THEN SubSeq(s, i, Len(s)) ELSE SubSeq(s, i, j)

Digits == <<"0", "1", "2", "3", "4", "5", "6", "7", "8", "9">>

IsDigit(c) == \E d \in DOMAIN Digits : Digits[d] = c

DigitVal(c) == (CHOOSE d \in DOMAIN Digits : Digits[d] = c) - 1

RECURSIVE NatToStr(_)
NatToStr(n) ==
  IF n < 10 THEN Digits[n + 1] ELSE NatToStr(n \div 10) \o Digits[(n % 10) + 1]

RECURSIVE Pow10(_)
Pow10(e) == IF e = 0 THEN 1 ELSE 10 * Pow10(e - 1)

RECURSIVE PadFrac(_, _)
PadFrac(digits, e) == IF Len(digits) < e THEN PadFrac("0" \o digits, e) ELSE digits

\* The decimal text of the number m / 10^e.
NumToStr(m, e) ==
  LET abs == IF m < 0 THEN -m ELSE m
      sign == IF m < 0 THEN "-" ELSE ""
  IN  IF e = 0 THEN sign \o NatToStr(abs)
      ELSE sign \o NatToStr(abs \div Pow10(e)) \o "."
                \o PadFrac(NatToStr(abs % Pow10(e)), e)

\* m / 10^e with the trailing zeros of the fraction dropped.
RECURSIVE NormNum(_, _)
NormNum(m, e) == IF e > 0 /\ m % 10 = 0 THEN NormNum(m \div 10, e - 1) ELSE JNum(m, e)

(***************************************************************************)
(* JSON.parse: a recursive-descent reader of the text.  A result is        *)
(* [ok |-> FALSE] (a SyntaxError) or [ok |-> TRUE, val, pos] with pos the  *)
(* index after the value.  Exponents and \u escapes are outside the        *)
(* alphabet of the model.                                                  *)
(***************************************************************************)
ParseFail == [ok |-> FALSE]

ParseOk(v, p) == [ok |-> TRUE, val |-> v, pos |-> p]

RECURSIVE SkipWs(_, _)
SkipWs(s, i) == IF Ch(s, i) \in {" ", "\n", "\t", "\r"} THEN SkipWs(s, i + 1) ELSE i

\* The characters of a string literal from index i (after the opening quote).
RECURSIVE ParseChars(_, _, _)
ParseChars(s, i, acc) ==
  LET c == Ch(s, i)
      d == Ch(s, i + 1)
  IN  CASE c = "" -> ParseFail
        [] c = "\"" -> ParseOk(JStr(acc), i + 1)
        [] c \in {"\n", "\t", "\r"} -> ParseFail
        [] c = "\\" ->
             CASE d \in {"\"", "\\", "/"} -> ParseChars(s, i + 2, acc \o d)
               [] d = "n" -> ParseChars(s, i + 2, acc \o "\n")
               [] d = "t" -> ParseChars(s, i + 2, acc \o "\t")
               [] d = "r" -> ParseChars(s, i + 2, acc \o "\r")
               [] OTHER -> ParseFail
        [] OTHER -> ParseChars(s, i + 1, acc \o c)

RECURSIVE ParseDigits(_, _, _, _)
ParseDigits(s, i, acc, n) ==
  IF IsDigit(Ch(s, i))
  THEN ParseDigits(s, i + 1, acc * 10 + DigitVal(Ch(s, i)), n + 1)
  ELSE [val |-> acc, pos |-> i, n |-> n]

\* -? (0 | [1-9][0-9]*) (. [0-9]+)?
ParseNumber(s, i) ==
  LET neg == Ch(s, i) = "-"
      j == IF neg THEN i + 1 ELSE i
      int == IF Ch(s, j) = "0" THEN [val |-> 0, pos |-> j + 1, n |-> 1]
             ELSE ParseDigits(s, j, 0, 0)
      frac == ParseDigits(s, int.pos + 1, 0, 0)
      sgn == IF neg THEN -1 ELSE 1
  IN  IF int.n = 0 THEN ParseFail
      ELSE IF Ch(s, int.pos) = "."
      THEN IF frac.n = 0 THEN ParseFail
           ELSE ParseOk(NormNum(sgn * (int.val * Pow10(frac.n) + frac.val), frac.n),
                        frac.pos)
      ELSE ParseOk(JInt(sgn * int.val), int.pos)

RECURSIVE ParseValue(_, _), ParseMembers(_, _, _), ParseElements(_, _, _)
ParseValue(s, i) ==
  LET j == SkipWs(s, i)
      c == Ch(s, j)
      k == SkipWs(s, j + 1)
  IN  CASE c = "{" -> IF Ch(s, k) = "}" THEN ParseOk(JObj(EmptyMap), k + 1)
                      ELSE ParseMembers(s, k, EmptyMap)
        [] c = "[" -> IF Ch(s, k) = "]" THEN ParseOk(JArr(<<>>), k + 1)
                      ELSE ParseElements(s, k, <<>>)
        [] c = "\"" -> ParseChars(s, j + 1, "")
        [] c = "-" \/ IsDigit(c) -> ParseNumber(s, j)
        [] Sub(s, j, j + 3) = "true" -> ParseOk(JBool(TRUE), j + 4)
        [] Sub(s, j, j + 4) = "false" -> ParseOk(JBool(FALSE), j + 5)
        [] Sub(s, j, j + 3) = "null" -> ParseOk(JNull, j + 4)
        [] OTHER -> ParseFail

\* i is at the first character of a member's name.
ParseMembers(s, i, acc) ==
  LET key == IF Ch(s, i) = "\"" THEN ParseChars(s, i + 1, "") ELSE ParseFail
      colon == SkipWs(s, key.pos)
      val == IF Ch(s, colon) = ":" THEN ParseValue(s, colon + 1) ELSE ParseFail
      next == SkipWs(s, val.pos)
      obj == Put(acc, key.val.s, val.val)
  IN  IF ~key.ok THEN ParseFail
      ELSE IF ~val.ok THEN ParseFail
      ELSE CASE Ch(s, next) = "," -> ParseMembers(s, SkipWs(s, next + 1), obj)
             [] Ch(s, next) = "}" -> ParseOk(JObj(obj), next + 1)
             [] OTHER -> ParseFail

ParseElements(s, i, acc) ==
  LET val == ParseValue(s, i)
      next == SkipWs(s, val.pos)
  IN  IF ~val.ok THEN ParseFail
      ELSE CASE Ch(s, next) = "," -> ParseElements(s, next + 1, Append(acc, val.val))
             [] Ch(s, next) = "]" -> ParseOk(JArr(Append(acc, val.val)), next + 1)
             [] OTHER -> ParseFail

\* JSON.parse(text): [ok |-> TRUE, val] or [ok |-> FALSE] (it throws).
JSONParse(text) ==
  LET r == ParseValue(text, 1)
  IN  IF r.ok /\ SkipWs(text, r.pos) = Len(text) + 1
      THEN [ok |-> TRUE, val |-> r.val]
      ELSE [ok |-> FALSE]

(***************************************************************************)
(* JSON.stringify of a value.  The members of an object are written in a   *)
(* fixed order of their names.                                             *)
(***************************************************************************)
\* The character c inside a string literal.
QuoteChar(c) ==
  CASE c = "\"" -> "\\\""
    [] c = "\\" -> "\\\\"
    [] c = "\n" -> "\\n"
    [] c = "\t" -> "\\t"
    [] c = "\r" -> "\\r"
    [] OTHER -> c

RECURSIVE QuoteRange(_, _, _)
QuoteRange(s, lo, hi) ==
  IF lo > hi THEN ""
  ELSE IF lo = hi THEN QuoteChar(Ch(s, lo))
  ELSE QuoteRange(s, lo, (lo + hi) \div 2) \o QuoteRange(s, ((lo + hi) \div 2) + 1, hi)

Quote(s) == "\"" \o QuoteRange(s, 1, Len(s)) \o "\""

RECURSIVE JSONStringify(_), StringifyItems(_, _), StringifyMembers(_, _)
JSONStringify(v) ==
  CASE v.t = "str" -> Quote(v.s)
    [] v.t = "num" -> NumToStr(v.m, v.e)
    [] v.t = "bool" -> IF v.b THEN "true" ELSE "false"
    [] v.t = "null" -> "null"
    [] v.t = "arr" -> "[" \o StringifyItems(v.a, 1) \o "]"
    [] v.t = "obj" -> "{" \o StringifyMembers(v.o, DOMAIN v.o) \o "}"

StringifyItems(a, i) ==
  IF i > Len(a) THEN ""
  ELSE JSONStringify(a[i]) \o (IF i < Len(a) THEN "," ELSE "")
       \o StringifyItems(a, i + 1)

StringifyMembers(o, keys) ==
  IF keys = {} THEN ""
  ELSE LET k == CHOOSE x \in keys : TRUE
       IN  Quote(k) \o ":" \o JSONStringify(o[k])
           \o (IF keys = {k} THEN "" ELSE ",")
           \o StringifyMembers(o, keys \ {k})

(***************************************************************************)
(* application/x-www-form-urlencoded: URLSearchParams.  The percent codes  *)
(* are those of the characters of the model's alphabet (upper-case hex, as *)
(* the serializer writes them).                                            *)
(***************************************************************************)
PercentCodes ==
  << <<"\"", "22">>, <<"%", "25">>, <<"&", "26">>, <<"+", "2B">>, <<",", "2C">>,
     <<"/", "2F">>, <<":", "3A">>, <<"=", "3D">>, <<"?", "3F">>, <<"[", "5B">>,
     <<"\\", "5C">>, <<"]", "5D">>, <<"{", "7B">>, <<"}", "7D">>, <<"<", "3C">>,
     <<">", "3E">>, <<"|", "7C">>, <<"!", "21">>, <<"\n", "0A">> >>

\* The serializer's byte rule: a space is "+", a character with a percent
\* code is "%XX", any other (alphanumerics and * - . _) stands for itself.
EncodeChar(c) ==
  IF c = " " THEN "+"
  ELSE IF \E i \in DOMAIN PercentCodes : PercentCodes[i][1] = c
  THEN "%" \o PercentCodes[CHOOSE i \in DOMAIN PercentCodes : PercentCodes[i][1] = c][2]
  ELSE c

\* The characters lo..hi of s, each encoded (the range is cut in halves).
RECURSIVE UrlEncodeRange(_, _, _)
UrlEncodeRange(s, lo, hi) ==
  IF lo > hi THEN ""
  ELSE IF lo = hi THEN EncodeChar(Ch(s, lo))
  ELSE UrlEncodeRange(s, lo, (lo + hi) \div 2)
       \o UrlEncodeRange(s, ((lo + hi) \div 2) + 1, hi)

UrlEncode(s) == UrlEncodeRange(s, 1, Len(s))

\* Whether a percent code starts at index i of s.
CodeAt(s, i) ==
  /\ Ch(s, i) = "%"
  /\ \E k \in DOMAIN PercentCodes : PercentCodes[k][2] = Sub(s, i + 1, i + 2)

\* The parser's rule for the character at index i: "+" is a space, "%XX" is
\* the character of that code (and its two digits yield nothing), a "%" that
\* starts no code stands for itself.  A code holds no "%", so codes never
\* overlap and the rule can be applied index by index.
\* A decoder that leaves "+" as it stands instead of reading it as a space.
DecodeAtKeepPlus(s, i) ==
  IF CodeAt(s, i)
  THEN PercentCodes[CHOOSE k \in DOMAIN PercentCodes :
                      PercentCodes[k][2] = Sub(s, i + 1, i + 2)][1]
  ELSE IF CodeAt(s, i - 1) \/ CodeAt(s, i - 2) THEN ""
  ELSE Ch(s, i)

DecodeAt(s, i) ==
  LET c == Ch(s, i)
  IN  IF CodeAt(s, i)
      THEN PercentCodes[CHOOSE k \in DOMAIN PercentCodes :
                          PercentCodes[k][2] = Sub(s, i + 1, i + 2)][1]
      ELSE IF CodeAt(s, i - 1) \/ CodeAt(s, i - 2) THEN ""
      ELSE IF c = "+" THEN " "
      ELSE c

RECURSIVE UrlDecodeRange(_, _, _)
UrlDecodeRange(s, lo, hi) ==
  IF lo > hi THEN ""
  ELSE IF lo = hi THEN DecodeAt(s, lo)
  ELSE UrlDecodeRange(s, lo, (lo + hi) \div 2)
       \o UrlDecodeRange(s, ((lo + hi) \div 2) + 1, hi)

UrlDecode(s) == UrlDecodeRange(s, 1, Len(s))

\* The index of the first c in s, or 0.
IndexOf(s, c) ==
  LET hits == {i \in 1 .. Len(s) : Ch(s, i) = c}
  IN  IF hits = {} THEN 0 ELSE CHOOSE i \in hits : \A j \in hits : i <= j

\* One name=value piece: split at the first "=", both sides decoded.
ParsePair(piece) ==
  LET eq == IndexOf(piece, "=")
  IN  IF eq = 0 THEN <<UrlDecode(piece), "">>
      ELSE <<UrlDecode(Sub(piece, 1, eq - 1)), UrlDecode(Sub(piece, eq + 1, Len(piece)))>>

\* The pieces between "&"; empty pieces are skipped.
RECURSIVE ParsePieces(_)
ParsePieces(s) ==
  LET amp == IndexOf(s, "&")
      piece == IF amp = 0 THEN s ELSE Sub(s, 1, amp - 1)
      rest == IF amp = 0 THEN <<>> ELSE ParsePieces(Sub(s, amp + 1, Len(s)))
  IN  IF s = "" THEN <<>>
      ELSE IF piece = "" THEN rest
      ELSE <<ParsePair(piece)>> \o rest

\* new URLSearchParams(body): the list of <<name, value>> pairs; one leading
\* "?" is dropped.
URLSearchParams(body) ==
  ParsePieces(IF Ch(body, 1) = "?" THEN Sub(body, 2, Len(body)) ELSE body)

\* params.has(name)
ParamsHas(params, name) == \E i \in DOMAIN params : params[i][1] = name

\* params.get(name): the value of the first pair of that name.
ParamsGet(params, name) ==
  params[CHOOSE i \in DOMAIN params :
           /\ params[i][1] = name
           /\ \A j \in DOMAIN params : params[j][1] = name => i <= j][2]

\* params.toString(): the pairs encoded and joined, as the sender of a form
\* body writes it.
RECURSIVE ParamsToString(_)
ParamsToString(params) ==
  IF params = <<>> THEN ""
  ELSE UrlEncode(Head(params)[1]) \o "=" \o UrlEncode(Head(params)[2])
       \o (IF Len(params) > 1 THEN "&" ELSE "")
       \o ParamsToString(Tail(params))

(***************************************************************************)
(* The form content-type parser of the plugin.  A parser's result is       *)
(* [statusCode |-> 0, body] for done(null, body) and                       *)
(* [statusCode |-> 400, message, body] for done(error, {}).                *)
(***************************************************************************)
Done(body) == [statusCode |-> 0, message |-> "", body |-> body]

DoneError(code, message) ==
  [statusCode |-> code, message |-> message, body |-> JObj(EmptyMap)]

\* result[key] = value on a plain object, value a string: an own property,
\* except that the name __proto__ reaches the inherited setter, which ignores
\* a string and defines nothing.
SetProperty(result, key, value) ==
  IF key = "__proto__" THEN result ELSE Put(result, key, JStr(value))

\* for (const [key, value] of params.entries()) result[key] = value
RECURSIVE FoldEntries(_, _)
FoldEntries(params, result) ==
  IF params = <<>> THEN result
  ELSE FoldEntries(Tail(params), SetProperty(result, Head(params)[1], Head(params)[2]))

\* A form parser that falls back to the flat fields when the payload field
\* does not parse.
FormParserFoldOnError(body) ==
  LET params == URLSearchParams(body)
      parsedPayload == JSONParse(ParamsGet(params, "payload"))
  IN  IF ParamsHas(params, "payload") /\ parsedPayload.ok
      THEN Done(parsedPayload.val)
      ELSE Done(JObj(FoldEntries(params, EmptyMap)))

\* A form parser that keeps the flat fields next to the payload field.
FormParserKeepFields(body) ==
  LET params == URLSearchParams(body)
  IN  Done(JObj(FoldEntries(params, EmptyMap)))

\* The 400 error's message is kept up to the text of the SyntaxError, which
\* depends on the engine.
FormParser(body) ==
  LET params == URLSearchParams(body)
      parsedPayload == JSONParse(ParamsGet(params, "payload"))
  IN  IF ParamsHas(params, "payload")
      THEN IF parsedPayload.ok THEN Done(parsedPayload.val)
           ELSE DoneError(400, "Invalid JSON in payload")
      ELSE Done(JObj(FoldEntries(params, EmptyMap)))

\* The host's parser of application/json bodies: JSON.parse of the text; an
\* empty body or a SyntaxError is a 400.
JsonParser(body) ==
  LET parsed == JSONParse(body)
  IN  IF body = "" THEN DoneError(400, "Body cannot be empty")
      ELSE IF parsed.ok THEN Done(parsed.val)
      ELSE DoneError(400, "Invalid JSON body")

(***************************************************************************)
(* The body schema of the webhook route and its evaluation.  A schema is a *)
(* record of the keywords it states; Validate is the JSON-Schema meaning   *)
(* of type, required, properties, additionalProperties, items and enum,    *)
(* and yields the set of violations (none: the value is valid).            *)
(***************************************************************************)
actionItemSchema ==
  [ type |-> "object",
    properties |->
      [ type |-> [type |-> "string", enum |-> {"button"}],
        text |-> [type |-> "string"],
        name |-> [type |-> "string"],
        value |-> [type |-> "string"],
        style |-> [ type |-> "string",
                    enum |-> {"green", "grey", "red", "orange", "blue", "teal"} ] ],
    required |-> {"type", "name", "text", "value"} ]

attachmentItemSchema ==
  [ type |-> "object",
    properties |->
      [ callback_id |-> [type |-> "string"],
        text |-> [type |-> "string"],
        actions |-> [type |-> "array", items |-> actionItemSchema] ],
    required |-> {"text"} ]

\* A body schema that lists every property it admits.
webhookSchemaClosed ==
  [ body |->
      [ type |-> "object",
        properties |->
          [ text |-> [type |-> "string"],
            file_url |-> [type |-> "string"],
            user_ids |-> [type |-> "array", items |-> [type |-> "number"]],
            attachments |-> [type |-> "array", items |-> attachmentItemSchema] ],
        required |-> {"text"},
        additionalProperties |-> FALSE ] ]

webhookSchema ==
  [ body |->
      [ type |-> "object",
        properties |->
          [ text |-> [type |-> "string"],
            file_url |-> [type |-> "string"],
            user_ids |-> [type |-> "array", items |-> [type |-> "number"]],
            attachments |-> [type |-> "array", items |-> attachmentItemSchema] ],
        required |-> {"text"},
        additionalProperties |-> TRUE ] ]

\* The schema of the messages sendMessage may be given.
\* An action schema that admits any style.
actionSchemaAnyStyle ==
  [ type |-> "object",
    properties |->
      [ type |-> [type |-> "string", enum |-> {"button"}],
        text |-> [type |-> "string"],
        name |-> [type |-> "string"],
        value |-> [type |-> "string"],
        style |-> [type |-> "string"] ],
    required |-> {"type", "name", "text", "value"},
    additionalProperties |-> FALSE ]

\* An action schema that admits properties it does not list.
actionSchemaOpen ==
  [ type |-> "object",
    properties |->
      [ type |-> [type |-> "string", enum |-> {"button"}],
        text |-> [type |-> "string"],
        name |-> [type |-> "string"],
        value |-> [type |-> "string"],
        style |-> [ type |-> "string",
                    enum |-> {"green", "grey", "red", "orange", "blue", "teal"} ] ],
    required |-> {"type", "name", "text", "value"} ]

actionSchema ==
  [ type |-> "object",
    properties |->
      [ type |-> [type |-> "string", enum |-> {"button"}],
        text |-> [type |-> "string"],
        name |-> [type |-> "string"],
        value |-> [type |-> "string"],
        style |-> [ type |-> "string",
                    enum |-> {"green", "grey", "red", "orange", "blue", "teal"} ] ],
    required |-> {"type", "name", "text", "value"},
    additionalProperties |-> FALSE ]

\* An attachment schema that requires nothing.
attachmentSchemaNoRequired ==
  [ type |-> "object",
    properties |->
      [ callback_id |-> [type |-> "string"],
        text |-> [type |-> "string"],
        actions |-> [type |-> "array", items |-> actionSchema] ],
    additionalProperties |-> FALSE ]

attachmentSchema ==
  [ type |-> "object",
    properties |->
      [ callback_id |-> [type |-> "string"],
        text |-> [type |-> "string"],
        actions |-> [type |-> "array", items |-> actionSchema] ],
    required |-> {"text"},
    additionalProperties |-> FALSE ]

messageSchema ==
  [ oneOf |->
      << [type |-> "string"],
         [ type |-> "object",
           properties |->
             [ text |-> [type |-> "string"],
               file_url |-> [type |-> "string", format |-> "uri"],
               user_ids |-> [type |-> "array", items |-> [type |-> "integer"]],
               attachments |-> [type |-> "array", items |-> attachmentSchema] ],
           required |-> {"text"},
           additionalProperties |-> FALSE ] >> ]

\* The format uri: a scheme of letters, digits, "+", "-" and ".", led by a
\* letter and closed by ":", and no blank or quote anywhere in the text.
IsUri(text) ==
  LET colon == IndexOf(text, ":")
      letters == {"a", "b", "c", "d", "e", "f", "g", "h", "i", "j", "k", "l", "m",
                  "n", "o", "p", "q", "r", "s", "t", "u", "v", "w", "x", "y", "z"}
  IN  /\ colon > 1
      /\ Ch(text, 1) \in letters
      /\ \A i \in 2 .. (colon - 1) : Ch(text, i) \in letters \cup Digits \cup {"+", "-", "."}
      /\ \A i \in 1 .. Len(text) : Ch(text, i) \notin {" ", "\"", "<", ">"}

\* The JSON-Schema type of a value.
HasType(v, type) ==
  CASE type = "string" -> v.t = "str"
    [] type = "number" -> v.t = "num"
    [] type = "integer" -> v.t = "num" /\ v.e = 0
    [] type = "boolean" -> v.t = "bool"
    [] type = "null" -> v.t = "null"
    [] type = "array" -> v.t = "arr"
    [] type = "object" -> v.t = "obj"

Violation(path, kind, detail) == [path |-> path, kind |-> kind, detail |-> detail]

RECURSIVE Validate(_, _, _)
Validate(schema, v, path) ==
  LET has(kw) == kw \in DOMAIN schema
      props == IF has("properties") THEN schema.properties ELSE EmptyMap
  IN  (IF has("type") /\ ~HasType(v, schema.type)
       THEN {Violation(path, "type", schema.type)} ELSE {})
      \cup
      (IF has("enum") /\ ~(v.t = "str" /\ v.s \in schema.enum)
       THEN {Violation(path, "enum", "")} ELSE {})
      \cup
      (IF has("required") /\ v.t = "obj"
       THEN {Violation(path, "required", p) : p \in schema.required \ DOMAIN v.o}
       ELSE {})
      \cup
      (IF v.t = "obj"
       THEN UNION {Validate(props[k], v.o[k], path \o "/" \o k) :
                     k \in (DOMAIN props) \cap (DOMAIN v.o)}
       ELSE {})
      \cup
      (IF has("additionalProperties") /\ v.t = "obj" /\ ~schema.additionalProperties
       THEN {Violation(path, "additionalProperties", k) :
               k \in (DOMAIN v.o) \ (DOMAIN props)}
       ELSE {})
      \cup
      (IF has("items") /\ v.t = "arr"
       THEN UNION {Validate(schema.items, v.a[i], path \o "/" \o NatToStr(i - 1)) :
                     i \in DOMAIN v.a}
       ELSE {})
      \cup
      (IF has("format") /\ v.t = "str" /\ schema.format = "uri" /\ ~IsUri(v.s)
       THEN {Violation(path, "format", schema.format)} ELSE {})
      \cup
      (IF has("oneOf")
       THEN LET branch(i) == Validate(schema.oneOf[i], v, path)
                passing == {i \in DOMAIN schema.oneOf : branch(i) = {}}
            IN  IF Cardinality(passing) = 1 THEN {}
                ELSE UNION {branch(i) : i \in DOMAIN schema.oneOf}
                     \cup {Violation(path, "oneOf", "")}
       ELSE {})

\* The verdict of the route's compiled body validator.
\* A route without a body schema accepts every body.
NoBodySchema(body) == TRUE

ValidBody(body) == Validate(webhookSchema.body, body, "") = {}

(***************************************************************************)
(* Bounds and input sets                                                   *)
(***************************************************************************)
\* Inbound requests in flight or answered.
MaxRequests == 2

\* sendMessage calls.
MaxCalls == 2

\* Fields in a form body of the normalizer's inputs.
MaxFields == 2

ReqIds == 1 .. MaxRequests

CallIds == 1 .. MaxCalls

Nothing == [t |-> "nothing"]

JsonType == "application/json"

FormType == "application/x-www-form-urlencoded"

\* Messages a sender may post, valid and invalid under the body schema.
HelloMessage == JObj([text |-> JStr("Hello world!")])

SpecialsMessage ==
  JObj([text |-> JStr("a+b &c=%"), file_url |-> JStr("http://example.com/a.jpg")])

InvalidMessage == JObj([invalid |-> JStr("payload")])

ButtonCallback ==
  JObj([ actions |-> JArr(<<JObj([ type |-> JStr("button"),
                                   name |-> JStr("view_report"),
                                   value |-> JStr("view_full_report") ])>>),
         callback_id |-> JStr("monthly_report"),
         token |-> JStr("example_token"),
         post_id |-> JStr("123456"),
         user |-> JObj([user_id |-> JInt(42), username |-> JStr("test_user")]) ])

RichMessage ==
  JObj([ text |-> JStr("say \"hi\""),
         user_ids |-> JArr(<<JInt(1), JNum(25, 1)>>),
         attachments |->
           JArr(<<JObj([ text |-> JStr("pick"),
                         actions |-> JArr(<<JObj([ type |-> JStr("button"),
                                                   name |-> JStr("ok"),
                                                   text |-> JStr("OK"),
                                                   value |-> JStr("1"),
                                                   style |-> JStr("green") ])>>) ])>>) ])

\* A sender's form field: a name with a text, or (json # Nothing) a name
\* with a value the sender serializes with JSON.stringify.
TextField(name, text) == [name |-> name, text |-> text, json |-> Nothing]

JsonField(name, value) == [name |-> name, text |-> "", json |-> value]

FieldText(f) == IF f.json = Nothing THEN f.text ELSE JSONStringify(f.json)

RECURSIVE FieldPairs(_)
FieldPairs(fields) ==
  IF fields = <<>> THEN <<>>
  ELSE <<<<Head(fields).name, FieldText(Head(fields))>>>> \o FieldPairs(Tail(fields))

\* What a sender puts on the wire: a JSON body written from a value, a form
\* body written from fields (as URLSearchParams.toString writes it), or a
\* body given as it stands.
SendJson(value) ==
  [ctype |-> JsonType, body |-> JSONStringify(value), kind |-> "json",
   value |-> value, fields |-> <<>>]

SendForm(fields) ==
  [ctype |-> FormType, body |-> ParamsToString(FieldPairs(fields)), kind |-> "form",
   value |-> Nothing, fields |-> fields]

SendRaw(ctype, body) ==
  [ctype |-> ctype, body |-> body, kind |-> "raw", value |-> Nothing, fields |-> <<>>]

\* The requests posted to the webhook route.
InboundInputs ==
  { SendJson(SpecialsMessage),
    SendJson(RichMessage),
    SendJson(InvalidMessage),
    SendJson(ButtonCallback),
    SendJson(JStr("Hello")),
    SendForm(<<JsonField("payload", SpecialsMessage)>>),
    SendForm(<<JsonField("payload", InvalidMessage)>>),
    SendForm(<<JsonField("payload", ButtonCallback)>>),
    SendForm(<<TextField("text", "ignored"), JsonField("payload", HelloMessage),
               TextField("token", "abc")>>),
    SendForm(<<TextField("text", "Hello"),
               TextField("file_url", "http://example.com/a.jpg")>>),
    SendForm(<<TextField("invalid", "payload")>>),
    SendForm(<<TextField("text", "Hello"), TextField("payload", "{ invalid json }")>>),
    SendRaw(JsonType, "{ invalid json }"),
    SendRaw(JsonType, "") }

(***************************************************************************)
(* State                                                                   *)
(***************************************************************************)
VARIABLES
  options,     \* the options the plugin is registered with
  plugin,      \* what registration has done to the host instance
  reqs,        \* the inbound requests, by id
  calls,       \* the sendMessage calls, by id
  wire,        \* the normalizer's input (a body and its content type)
  canon,       \* the normalizer's result for wire
  candidate,   \* the validator's input (a message and how it was built)
  report       \* the validator's results for candidate, by schema

vars == <<options, plugin, reqs, calls, wire, canon, candidate, report>>

\* The handler in effect after the destructuring defaults.
onMessage ==
  IF options.onMessage = "absent" THEN "defaultHandler" ELSE options.onMessage

\* typeof onMessage === 'function'
IsFunction(h) == h \in {"defaultHandler", "userHandler"}

webhookUrl == IF options.webhookUrl = JUndefined THEN JNull ELSE options.webhookUrl

RequiredError == "onMessage callback is required when required option is true"

NotFunctionError == "onMessage must be a function"

Loading == [state |-> "loading", error |-> "", parser |-> FALSE, decorator |-> FALSE,
            route |-> FALSE]

IdleRequest ==
  [ phase |-> "idle", input |-> Nothing, parsed |-> Nothing, valid |-> FALSE,
    invoked |-> 0, arg |-> Nothing, outcome |-> Nothing, logged |-> <<>>,
    replies |-> <<>> ]

(***************************************************************************)
(* Registration: synologyChat(fastify, options)                            *)
(***************************************************************************)
\* The error the option checks throw, or "" when they pass.
\* Option checks that do not look at required.
OptionsErrorIgnoresRequired(required, handler) ==
  IF ~IsFunction(handler) THEN NotFunctionError ELSE ""

OptionsError(required, handler) ==
  IF required /\ IsFunction(handler) /\ handler = "defaultHandler" THEN RequiredError
  ELSE IF ~IsFunction(handler) THEN NotFunctionError
  ELSE ""

\* A registration that checks its options after it has registered the form
\* parser.
synologyChatChecksLate ==
  /\ plugin.state = "loading"
  /\ plugin' =
       IF OptionsError(options.required, onMessage) # ""
       THEN [Loading EXCEPT !.state = "failed", !.parser = TRUE,
                            !.error = OptionsError(options.required, onMessage)]
       ELSE [state |-> "ready", error |-> "", parser |-> TRUE, decorator |-> TRUE,
             route |-> TRUE]
  /\ UNCHANGED <<options, reqs, calls, wire, canon, candidate, report>>

synologyChat ==
  /\ plugin.state = "loading"
  /\ plugin' =
       IF OptionsError(options.required, onMessage) # ""
       THEN [Loading EXCEPT !.state = "failed",
                            !.error = OptionsError(options.required, onMessage)]
       ELSE [state |-> "ready", error |-> "", parser |-> TRUE, decorator |-> TRUE,
             route |-> TRUE]
  /\ UNCHANGED <<options, reqs, calls, wire, canon, candidate, report>>

(***************************************************************************)
(* The inbound route                                                       *)
(***************************************************************************)
\* The host's choice of content-type parser for a request.
ContentTypeParser(ctype, body) ==
  IF ctype = FormType THEN FormParser(body) ELSE JsonParser(body)

\* reply.code(status).send(value): a string goes out as it stands, any other
\* value as its JSON text.
\* A reply that serializes every value, strings included, as JSON.
ReplyAlwaysJson(status, value) ==
  [status |-> status, contentType |-> JsonType, payload |-> JSONStringify(value)]

Reply(status, value) ==
  IF value.t = "str"
  THEN [status |-> status, contentType |-> "text/plain", payload |-> value.s]
  ELSE [status |-> status, contentType |-> JsonType, payload |-> JSONStringify(value)]

\* The host's answer to a request it rejects before the handler.
Reject(status, message) ==
  Reply(status, JObj([statusCode |-> JInt(status), message |-> JStr(message)]))

\* What a handler may do once invoked: return a value or throw an Error.
Returns(value) == [kind |-> "return", value |-> value, message |-> ""]

Throws(message) == [kind |-> "throw", value |-> Nothing, message |-> message]

defaultHandler == Returns(JObj([success |-> JBool(TRUE)]))

HandlerOutcomes(h) ==
  IF h = "defaultHandler" THEN {defaultHandler}
  ELSE { Returns(JObj([text |-> JStr("Message received!")])),
         Returns(JStr("OK")),
         Returns(JUndefined),
         Returns(JNull),
         Throws("boom") }

\* The content-type parser's result for each request of the model (the
\* parser is a function of the body alone: its results are tabulated).
ParsedInput == [input \in InboundInputs |-> ContentTypeParser(input.ctype, input.body)]

\* A request arrives at the route: the content-type parser runs, then the
\* body schema, and a body that passes both is handed to onMessage.
\* A route that hands the handler the body as it came over the wire.
PostRawBody(r, input) ==
  /\ plugin.route
  /\ reqs[r].phase = "idle"
  /\ LET parsed == ParsedInput[input]
         valid == parsed.statusCode = 0 /\ ValidBody(parsed.body)
     IN  reqs' = [reqs EXCEPT ![r] =
           IF parsed.statusCode # 0
           THEN [@ EXCEPT !.phase = "answered", !.input = input, !.parsed = parsed,
                          !.replies = <<Reject(parsed.statusCode, parsed.message)>>]
           ELSE IF ~valid
           THEN [@ EXCEPT !.phase = "answered", !.input = input, !.parsed = parsed,
                          !.replies = <<Reject(400, "body is invalid")>>]
           ELSE [@ EXCEPT !.phase = "running", !.input = input, !.parsed = parsed,
                          !.valid = TRUE, !.invoked = @ + 1, !.arg = JStr(input.body)]]
  /\ UNCHANGED <<options, plugin, calls, wire, canon, candidate, report>>

\* A route that answers as soon as the handler has been called.
PostAnswersEarly(r, input) ==
  /\ plugin.route
  /\ reqs[r].phase = "idle"
  /\ LET parsed == ParsedInput[input]
         valid == parsed.statusCode = 0 /\ ValidBody(parsed.body)
     IN  reqs' = [reqs EXCEPT ![r] =
           IF parsed.statusCode # 0
           THEN [@ EXCEPT !.phase = "answered", !.input = input, !.parsed = parsed,
                          !.replies = <<Reject(parsed.statusCode, parsed.message)>>]
           ELSE IF ~valid
           THEN [@ EXCEPT !.phase = "answered", !.input = input, !.parsed = parsed,
                          !.replies = <<Reject(400, "body is invalid")>>]
           ELSE [@ EXCEPT !.phase = "running", !.input = input, !.parsed = parsed,
                          !.valid = TRUE, !.invoked = @ + 1, !.arg = parsed.body,
                          !.replies = <<Reply(200, JObj([success |-> JBool(TRUE)]))>>]]
  /\ UNCHANGED <<options, plugin, calls, wire, canon, candidate, report>>

Post(r, input) ==
  /\ plugin.route
  /\ reqs[r].phase = "idle"
  /\ LET parsed == ParsedInput[input]
         valid == parsed.statusCode = 0 /\ ValidBody(parsed.body)
     IN  reqs' = [reqs EXCEPT ![r] =
           IF parsed.statusCode # 0
           THEN [@ EXCEPT !.phase = "answered", !.input = input, !.parsed = parsed,
                          !.replies = <<Reject(parsed.statusCode, parsed.message)>>]
           ELSE IF ~valid
           THEN [@ EXCEPT !.phase = "answered", !.input = input, !.parsed = parsed,
                          !.replies = <<Reject(400, "body is invalid")>>]
           ELSE [@ EXCEPT !.phase = "running", !.input = input, !.parsed = parsed,
                          !.valid = TRUE, !.invoked = @ + 1, !.arg = parsed.body]]
  /\ UNCHANGED <<options, plugin, calls, wire, canon, candidate, report>>

\* onMessage settles and the route handler finishes with it.
RouteResult(result) ==
  IF result = JUndefined \/ result = JNull
  THEN Reply(200, JObj([success |-> JBool(TRUE)]))
  ELSE Reply(200, result)

\* An error answer that hides the error's message.
RouteErrorGeneric(message) ==
  Reply(500, JObj([success |-> JBool(FALSE), error |-> JStr("Internal Server Error")]))

RouteError(message) ==
  Reply(500, JObj([success |-> JBool(FALSE), error |-> JStr(message)]))

LogEntry(message) ==
  [level |-> "error", err |-> message, msg |-> "Error processing Synology Chat webhook"]

\* A fault that takes every running request down with it.
HandlerSettlesFaultSpreads(r, outcome) ==
  /\ reqs[r].phase = "running"
  /\ reqs' =
       IF outcome.kind = "return"
       THEN [reqs EXCEPT ![r] = [@ EXCEPT !.phase = "answered", !.outcome = outcome,
                                            !.replies = Append(@, RouteResult(outcome.value))]]
       ELSE [q \in ReqIds |->
               IF q = r
               THEN [reqs[q] EXCEPT !.phase = "answered", !.outcome = outcome,
                                    !.logged = Append(@, LogEntry(outcome.message)),
                                    !.replies = Append(@, RouteError(outcome.message))]
               ELSE IF reqs[q].phase = "running"
               THEN [reqs[q] EXCEPT !.phase = "answered",
                                    !.replies = Append(@, RouteError(outcome.message))]
               ELSE reqs[q]]
  /\ UNCHANGED <<options, plugin, calls, wire, canon, candidate, report>>

\* A fault that is logged and never answered.
HandlerSettlesSilentFault(r, outcome) ==
  /\ reqs[r].phase = "running"
  /\ reqs' = [reqs EXCEPT ![r] =
       IF outcome.kind = "return"
       THEN [@ EXCEPT !.phase = "answered", !.outcome = outcome,
                      !.replies = Append(@, RouteResult(outcome.value))]
       ELSE [@ EXCEPT !.phase = "answered", !.outcome = outcome,
                      !.logged = Append(@, LogEntry(outcome.message))]]
  /\ UNCHANGED <<options, plugin, calls, wire, canon, candidate, report>>

HandlerSettles(r, outcome) ==
  /\ reqs[r].phase = "running"
  /\ reqs' = [reqs EXCEPT ![r] =
       IF outcome.kind = "return"
       THEN [@ EXCEPT !.phase = "answered", !.outcome = outcome,
                      !.replies = Append(@, RouteResult(outcome.value))]
       ELSE [@ EXCEPT !.phase = "answered", !.outcome = outcome,
                      !.logged = Append(@, LogEntry(outcome.message)),
                      !.replies = Append(@, RouteError(outcome.message))]]
  /\ UNCHANGED <<options, plugin, calls, wire, canon, candidate, report>>

(***************************************************************************)
(* The decorator: synologyChat.sendMessage(message, url = null)            *)
(***************************************************************************)
\* ToBoolean of a value.
\* A test that takes everything but null and undefined for a destination.
TruthyNotNullish(v) == v.t \notin {"null", "undef"}

Truthy(v) ==
  CASE v.t = "str" -> v.s # ""
    [] v.t = "num" -> v.m # 0
    [] v.t = "bool" -> v.b
    [] v.t \in {"null", "undef"} -> FALSE
    [] OTHER -> TRUE

\* a || b
Or(a, b) == IF Truthy(a) THEN a ELSE b

NoUrlError ==
  "No webhook URL provided. Set it in the plugin options or pass it to sendMessage()"

SendFailedPrefix == "Failed to send message to Synology Chat: "

DefaultUrl == JStr("https://example.com/webhook")

OverrideUrl == JStr("https://custom-webhook.com/endpoint")

\* The url arguments of a call: omitted, null, empty, or an override.
UrlArguments == {JUndefined, JNull, JStr(""), OverrideUrl}

OutboundMessages == {JStr("Hello from Fastify!"), RichMessage}

\* What the remote may answer to a delivery call (hasBody: the response
\* carries a body stream, which can be read once), or the call fails.
Response(ok, status, text, hasBody) ==
  [kind |-> "response", ok |-> ok, status |-> status, text |-> text,
   hasBody |-> hasBody, message |-> ""]

FetchFailure(message) ==
  [kind |-> "failure", ok |-> FALSE, status |-> 0, text |-> "", hasBody |-> FALSE,
   message |-> message]

RemoteAnswers ==
  { Response(TRUE, 200, "{\"success\":true}", TRUE),
    Response(TRUE, 200, "OK", TRUE),
    Response(TRUE, 200, "", TRUE),
    Response(TRUE, 204, "", FALSE),
    Response(FALSE, 400, "invalid payload", TRUE),
    FetchFailure("fetch failed") }

IdleCall ==
  [ phase |-> "idle", message |-> Nothing, url |-> Nothing, targetUrl |-> Nothing,
    fetched |-> <<>>, answer |-> Nothing, result |-> Nothing, error |-> "" ]

\* A payload that hands a string on as it is.
PayloadUnwrapped(message) == message

\* The payload of a message: a string becomes {text: message}.
Payload(message) == IF message.t = "str" THEN JObj([text |-> message]) ELSE message

\* A delivery in the form encoding, payload=<JSON>.
DeliveryAsForm(targetUrl, payload) ==
  [ url |-> targetUrl, method |-> "POST",
    headers |-> [ContentType |-> "application/x-www-form-urlencoded"],
    body |-> "payload=" \o JSONStringify(payload) ]

\* The arguments of the delivery call fetch(targetUrl, {...}).
Delivery(targetUrl, payload) ==
  [ url |-> targetUrl, method |-> "POST",
    headers |-> [ContentType |-> "application/json"],
    body |-> JSONStringify(payload) ]

\* targetUrl = url || webhookUrl, with url defaulting to null.
\* A destination that is turned into a string before it is tested.
TargetUrlAsString(url, default) ==
  LET target == Or(IF url = JUndefined THEN JNull ELSE url, default)
  IN  IF target = JNull THEN JStr("null")
      ELSE IF target = JUndefined THEN JStr("undefined")
      ELSE target

\* A destination that prefers the configured default to the argument.
TargetUrlDefaultFirst(url, default) == Or(default, IF url = JUndefined THEN JNull ELSE url)

TargetUrl(url, default) == Or(IF url = JUndefined THEN JNull ELSE url, default)

\* The call up to its await of fetch.
sendMessage(c, message, url) ==
  /\ plugin.decorator
  /\ calls[c].phase = "idle"
  /\ LET targetUrl == TargetUrl(url, webhookUrl)
     IN  calls' = [calls EXCEPT ![c] =
           IF ~Truthy(targetUrl)
           THEN [@ EXCEPT !.phase = "rejected", !.message = message, !.url = url,
                          !.targetUrl = targetUrl, !.error = NoUrlError]
           ELSE [@ EXCEPT !.phase = "transmitting", !.message = message, !.url = url,
                          !.targetUrl = targetUrl,
                          !.fetched = Append(@, Delivery(targetUrl, Payload(message)))]]
  /\ UNCHANGED <<options, plugin, reqs, wire, canon, candidate, report>>

\* The call from the settling of fetch to its own settling.
\* A settlement that does not look at response.ok.
SettledIgnoresStatus(call, answer) ==
  LET parsed == JSONParse(answer.text)
  IN  IF answer.kind = "failure"
      THEN [call EXCEPT !.phase = "rejected", !.answer = answer,
                        !.error = answer.message]
      ELSE IF parsed.ok
      THEN [call EXCEPT !.phase = "resolved", !.answer = answer,
                        !.result = parsed.val]
      ELSE [call EXCEPT !.phase = "resolved", !.answer = answer,
                        !.result = JObj([success |-> JBool(TRUE),
                                         raw |-> JStr(answer.text)])]

Settled(call, answer) ==
  LET parsed == JSONParse(answer.text)
  IN  IF answer.kind = "failure"
      THEN [call EXCEPT !.phase = "rejected", !.answer = answer,
                        !.error = answer.message]
      ELSE IF ~answer.ok
      THEN [call EXCEPT !.phase = "rejected", !.answer = answer,
                        !.error = SendFailedPrefix \o NatToStr(answer.status) \o " "
                                  \o answer.text]
      ELSE IF parsed.ok
      THEN [call EXCEPT !.phase = "resolved", !.answer = answer,
                        !.result = parsed.val]
      ELSE IF answer.hasBody
      THEN \* response.json() has used the body: response.text() rejects
           [call EXCEPT !.phase = "rejected", !.answer = answer,
                        !.error = "Body is unusable"]
      ELSE [call EXCEPT !.phase = "resolved", !.answer = answer,
                        !.result = JObj([success |-> JBool(TRUE),
                                         raw |-> JStr(answer.text)])]

FetchSettles(c, answer) ==
  /\ calls[c].phase = "transmitting"
  /\ calls' = [calls EXCEPT ![c] = Settled(@, answer)]
  /\ UNCHANGED <<options, plugin, reqs, wire, canon, candidate, report>>

(***************************************************************************)
(* The normalizer alone: one body through its content-type parser          *)
(***************************************************************************)
FieldNames == {"text", "file_url", "payload", "__proto__"}

\* Texts of form fields; none of them is a JSON text.
FieldTexts == {"Hello", "a+b &c=%", "{ invalid json }"}

PayloadValues ==
  {HelloMessage, SpecialsMessage, RichMessage, JStr("Hello"),
   JArr(<<JInt(42), JNull, JBool(TRUE), JObj(EmptyMap)>>)}

FormFields ==
  {TextField(n, x) : n \in FieldNames, x \in FieldTexts}
  \cup {JsonField("payload", v) : v \in PayloadValues}

RECURSIVE SeqsUpTo(_, _)
SeqsUpTo(S, n) ==
  IF n = 0 THEN {<<>>}
  ELSE LET shorter == SeqsUpTo(S, n - 1)
       IN  shorter \cup {Append(q, x) : q \in shorter, x \in S}

NormalizerInputs ==
  {SendForm(fields) : fields \in SeqsUpTo(FormFields, MaxFields)}
  \cup {SendJson(v) : v \in PayloadValues}
  \cup {SendRaw(JsonType, x) : x \in FieldTexts}
  \cup {SendRaw(FormType, x) :
          x \in {"payload={\"text\": \"Message text\"}", "payload=", "?text=Hello",
                 "text=Hello&file_url=http://example.com/a.jpg", "text", "&&text=a=b&"}}
  \cup {SendRaw(JsonType, "")}

Normalize ==
  /\ canon = Nothing
  /\ canon' = ContentTypeParser(wire.ctype, wire.body)
  /\ UNCHANGED <<options, plugin, reqs, calls, wire, candidate, report>>

(***************************************************************************)
(* The validator alone: one message against the schema of the route and    *)
(* against the schema of the messages to send                              *)
(***************************************************************************)
\* The most attachments in a candidate.
MaxAttachments == 2

\* The most actions in each attachment of a candidate.
MaxActions == 2

\* Properties no schema lists, as the platform adds them to button callbacks.
TopExtras ==
  [ user |-> JObj([user_id |-> JInt(42), username |-> JStr("test_user")]),
    unknown_property |-> JStr("This should be rejected") ]

\* The ways a candidate departs from a plain message, at attachment i and
\* action j.
Defects ==
  { "none", "extraAttachment", "extraAction", "badType", "badStyle",
    "userIdString", "userIdFraction", "noText", "noAttachmentText" }

\* The length of user_ids in the candidates that carry it.
MaxUserIds == 3

PutIf(cond, o, key, val) == IF cond THEN Put(o, key, val) ELSE o

\* The action j of attachment i.
BuildAction(p, i, j) ==
  LET here == p.i = i /\ p.j = j
  IN  PutIf(p.defect = "badStyle" /\ here,
        PutIf(p.defect = "extraAction" /\ here,
              [ type |-> JStr(IF p.defect = "badType" /\ here THEN "link" ELSE "button"),
                name |-> JStr("action_" \o NatToStr(j)),
                text |-> JStr("Click me"), value |-> JStr("btn_" \o NatToStr(j)) ],
              "confirm", JStr("yes")),
        "style", JStr("purple"))

\* The attachment i.
BuildAttachment(p, i) ==
  PutIf(p.defect = "extraAttachment" /\ p.i = i,
    PutIf(p.acts > 0,
      PutIf(i \in p.callbacks,
            PutIf(~(p.defect = "noAttachmentText" /\ p.i = i), EmptyMap,
                  "text", JStr("Attachment text")),
            "callback_id", JStr("test_callback")),
      "actions", JArr([j \in 1 .. p.acts |-> JObj(BuildAction(p, i, j))])),
    "color", JStr("red"))

\* The user_ids with one element, at index i, that is not an integer.
BuildUserIds(p) ==
  JArr([u \in 1 .. MaxUserIds |->
          IF u # p.i THEN JInt(u)
          ELSE IF p.defect = "userIdString" THEN JStr("not-a-number")
          ELSE JNum(25, 1)])

RECURSIVE PutAll(_, _, _)
PutAll(o, extras, names) ==
  IF names = {} THEN o
  ELSE LET k == CHOOSE x \in names : TRUE
       IN  PutAll(Put(o, k, extras[k]), extras, names \ {k})

\* The message a build plan stands for.
BuildMessage(p) ==
  JObj(PutAll(
    PutIf(p.defect \in {"userIdString", "userIdFraction"},
      PutIf(p.atts > 0,
            PutIf(p.defect # "noText", EmptyMap, "text", JStr("Hello with attachment")),
            "attachments", JArr([i \in 1 .. p.atts |-> JObj(BuildAttachment(p, i))])),
      "user_ids", BuildUserIds(p)),
    TopExtras, p.top))

\* The shapes of a candidate: how many attachments and actions, which
\* attachments carry callback_id, which unlisted properties the message has.
Shapes ==
  { s \in [ atts : 0 .. MaxAttachments, acts : 0 .. MaxActions,
            callbacks : SUBSET (1 .. MaxAttachments),
            top : SUBSET (DOMAIN TopExtras) ] :
      s.callbacks \subseteq 1 .. s.atts }

\* The places <<i, j>> a defect can sit at in a shape.
Sites(s, defect) ==
  CASE defect \in {"none", "noText"} -> {<<1, 1>>}
    [] defect \in {"extraAttachment", "noAttachmentText"} ->
         {<<i, 1>> : i \in 1 .. s.atts}
    [] defect \in {"extraAction", "badType", "badStyle"} ->
         (1 .. s.atts) \X (1 .. s.acts)
    [] defect \in {"userIdString", "userIdFraction"} ->
         {<<u, 1>> : u \in 1 .. MaxUserIds}

\* The build plans: the defect sits at a place the message has.
Plans ==
  UNION { { [ atts |-> s.atts, acts |-> s.acts, callbacks |-> s.callbacks,
              top |-> s.top, defect |-> d, i |-> x[1], j |-> x[2] ] :
            x \in Sites(s, d) } :
          s \in Shapes, d \in Defects }

\* What a compiled validator says of a value: valid, and the errors.
Verdict(schema, v) ==
  LET violations == Validate(schema, v, "")
  IN  [valid |-> violations = {}, violations |-> violations]

\* The candidate goes through both validators.
Examine ==
  /\ candidate # Nothing
  /\ report = Nothing
  /\ report' = [ inbound |-> Verdict(webhookSchema.body, candidate.message),
                 outbound |-> Verdict(messageSchema, candidate.message) ]
  /\ UNCHANGED <<options, plugin, reqs, calls, wire, canon, candidate>>

(***************************************************************************)
(* Specifications                                                          *)
(***************************************************************************)
\* The options that bear on registration and on the inbound route.
Init ==
  /\ options \in [ onMessage : {"absent", "userHandler", "notAFunction"},
                    required : BOOLEAN,
                    webhookUrl : {JUndefined} ]
  /\ plugin = Loading
  /\ reqs = [r \in ReqIds |-> IdleRequest]
  /\ calls = [c \in CallIds |-> IdleCall]
  /\ wire = Nothing
  /\ canon = Nothing
  /\ candidate = Nothing
  /\ report = Nothing

\* Registration and the inbound route.
Next ==
  \/ synologyChat
  \/ \E r \in ReqIds, input \in InboundInputs : Post(r, input)
  \/ \E r \in ReqIds : \E outcome \in HandlerOutcomes(onMessage) : HandlerSettles(r, outcome)

Spec == Init /\ [][Next]_vars

\* Registration and the decorator.
SendNext ==
  \/ synologyChat
  \/ \E c \in CallIds, message \in OutboundMessages, url \in UrlArguments :
       sendMessage(c, message, url)
  \/ \E c \in CallIds, answer \in RemoteAnswers : FetchSettles(c, answer)

\* The options that bear on the decorator.
SendInit ==
  /\ options \in [ onMessage : {"absent"},
                    required : {FALSE},
                    webhookUrl : {JUndefined, DefaultUrl} ]
  /\ plugin = Loading
  /\ reqs = [r \in ReqIds |-> IdleRequest]
  /\ calls = [c \in CallIds |-> IdleCall]
  /\ wire = Nothing
  /\ canon = Nothing
  /\ candidate = Nothing
  /\ report = Nothing

SendSpec == SendInit /\ [][SendNext]_vars

\* The normalizer on every input.
NormInit ==
  /\ options = [onMessage |-> "absent", required |-> FALSE, webhookUrl |-> JUndefined]
  /\ plugin = Loading
  /\ reqs = [r \in ReqIds |-> IdleRequest]
  /\ calls = [c \in CallIds |-> IdleCall]
  /\ wire \in NormalizerInputs
  /\ canon = Nothing
  /\ candidate = Nothing
  /\ report = Nothing

NormSpec == NormInit /\ [][Normalize]_vars

\* The validators on every candidate.
SchemaInit ==
  /\ options = [onMessage |-> "absent", required |-> FALSE, webhookUrl |-> JUndefined]
  /\ plugin = Loading
  /\ reqs = [r \in ReqIds |-> IdleRequest]
  /\ calls = [c \in CallIds |-> IdleCall]
  /\ wire = Nothing
  /\ canon = Nothing
  /\ \E p \in Plans : candidate = [plan |-> p, message |-> BuildMessage(p)]
  /\ report = Nothing

SchemaSpec == SchemaInit /\ [][Examine]_vars

(***************************************************************************)
(* Properties                                                              *)
(***************************************************************************)
\* Whether the text s contains the text part.
Contains(s, part) ==
  \E i \in 1 .. (Len(s) - Len(part) + 1) : SubSeq(s, i, i + Len(part) - 1) = part

\* The form fields of an input that are named name, in order.
FieldsNamed(input, name) == SelectSeq(input.fields, LAMBDA f : f.name = name)

C2_InvalidPayloadRejected ==
  \A r \in ReqIds :
    ( /\ reqs[r].phase # "idle"
      /\ reqs[r].input.kind = "form"
      /\ FieldsNamed(reqs[r].input, "payload") # <<>>
      /\ Head(FieldsNamed(reqs[r].input, "payload")).json = Nothing )
    => /\ reqs[r].phase = "answered"
       /\ Len(reqs[r].replies) = 1
       /\ reqs[r].replies[1].status = 400
       /\ reqs[r].invoked = 0

\* A form body with payload={ invalid json } has been answered 400.
C2_Witness ==
  \E r \in ReqIds :
    /\ reqs[r].phase = "answered"
    /\ reqs[r].input.kind = "form"
    /\ FieldsNamed(reqs[r].input, "payload") # <<>>
    /\ Head(FieldsNamed(reqs[r].input, "payload")).text = "{ invalid json }"
    /\ reqs[r].parsed.statusCode = 400
    /\ reqs[r].replies[1].status = 400

\* C3: for a form body with a field named payload (holding a JSON text), the
\* canonical message is the value that text decodes to, and nothing of the
\* other form fields is in it.
C3_PayloadFieldIsCanonical ==
  ( /\ canon # Nothing
    /\ wire.kind = "form"
    /\ FieldsNamed(wire, "payload") # <<>>
    /\ Head(FieldsNamed(wire, "payload")).json # Nothing )
  => canon = Done(Head(FieldsNamed(wire, "payload")).json)

\* A form body with a text field and a payload object was normalized to
\* the payload object.
C3_Witness ==
  /\ canon # Nothing
  /\ wire.kind = "form"
  /\ Len(wire.fields) = 2
  /\ wire.fields[1] = TextField("text", "a+b &c=%")
  /\ wire.fields[2] = JsonField("payload", SpecialsMessage)
  /\ canon.statusCode = 0
  /\ canon.body = SpecialsMessage

\* The value of the last field of that name.
LastFieldText(fields, name) ==
  LET named == SelectSeq(fields, LAMBDA f : f.name = name)
  IN  named[Len(named)].text

\* C4: for a form body without a payload field, the canonical message is an
\* object with one property per form key, whose value is the form value as a
\* string.
C4_FlatFieldsFolded ==
  ( /\ canon # Nothing
    /\ wire.kind = "form"
    /\ FieldsNamed(wire, "payload") = <<>> )
  => /\ canon.statusCode = 0
     /\ canon.body.t = "obj"
     /\ DOMAIN canon.body.o = {wire.fields[i].name : i \in DOMAIN wire.fields}
     /\ \A k \in DOMAIN canon.body.o :
          canon.body.o[k] = JStr(LastFieldText(wire.fields, k))

C6_ResultMapping ==
  \A r \in ReqIds :
    (reqs[r].phase = "answered" /\ reqs[r].outcome # Nothing
     /\ reqs[r].outcome.kind = "return")
    => LET value == reqs[r].outcome.value
           reply == reqs[r].replies[1]
       IN  /\ Len(reqs[r].replies) = 1
           /\ reply.status = 200
           /\ value.t = "obj" => JSONParse(reply.payload) = [ok |-> TRUE, val |-> value]
           /\ value.t = "str" => reply.payload = value.s
           /\ value.t \in {"undef", "null"} => reply.payload = "{\"success\":true}"

\* The handler returned the string OK and the answer is the text OK.
C6_Witness ==
  \E r \in ReqIds :
    /\ reqs[r].phase = "answered"
    /\ reqs[r].outcome = Returns(JStr("OK"))
    /\ reqs[r].replies = <<[status |-> 200, contentType |-> "text/plain",
                            payload |-> "OK"]>>

\* C7: when the handler throws an error with message m, the error is logged
\* and the request is answered with status 500 and {success: false, error: m}.
C7_HandlerFault ==
  \A r \in ReqIds :
    (reqs[r].phase = "answered" /\ reqs[r].outcome # Nothing
     /\ reqs[r].outcome.kind = "throw")
    => /\ Len(reqs[r].replies) = 1
       /\ reqs[r].replies[1].status = 500
       /\ JSONParse(reqs[r].replies[1].payload)
            = [ok |-> TRUE,
               val |-> JObj([success |-> JBool(FALSE),
                             error |-> JStr(reqs[r].outcome.message)])]
       /\ Len(reqs[r].logged) = 1
       /\ reqs[r].logged[1].level = "error"
       /\ reqs[r].logged[1].err = reqs[r].outcome.message

\* The handler threw boom and the request was answered 500.
C7_Witness ==
  \E r \in ReqIds :
    /\ reqs[r].phase = "answered"
    /\ reqs[r].outcome = Throws("boom")
    /\ reqs[r].replies[1].status = 500
    /\ reqs[r].replies[1].payload = "{\"error\":\"boom\",\"success\":false}"

\* C8: with required: true and no onMessage, registration fails with an
\* error that mentions onMessage, and no request is ever processed; with
\* required: true and a handler, registration succeeds.
C8_RequiredHandler ==
  plugin.state # "loading"
  => /\ (options.required /\ options.onMessage = "absent")
          => /\ plugin.state = "failed"
             /\ Contains(plugin.error, "onMessage")
             /\ ~plugin.route
             /\ \A r \in ReqIds : reqs[r].phase = "idle"
     /\ (options.required /\ options.onMessage = "userHandler")
          => plugin.state = "ready"

\* Registration with required: true and no handler has failed.
C8_Witness ==
  /\ options.required
  /\ options.onMessage = "absent"
  /\ plugin.state = "failed"
  /\ plugin.error = RequiredError

\* C9: a sendMessage call with no url argument and no configured webhookUrl
\* rejects with the No webhook URL provided error and issues no delivery
\* call.
C9_NoDestination ==
  \A c \in CallIds :
    ( /\ calls[c].phase # "idle"
      /\ calls[c].url \in {JUndefined, JNull}
      /\ options.webhookUrl = JUndefined )
    => /\ calls[c].phase = "rejected"
       /\ Contains(calls[c].error, "No webhook URL provided")
       /\ calls[c].fetched = <<>>

\* A call without destination has been rejected.
C9_Witness ==
  \E c \in CallIds :
    /\ calls[c].phase = "rejected"
    /\ calls[c].url = JUndefined
    /\ options.webhookUrl = JUndefined
    /\ calls[c].error = NoUrlError
    /\ calls[c].fetched = <<>>

\* C10: with a url argument and a configured webhookUrl, the delivery call
\* goes to the url argument and never to the configured one; without a url
\* argument it goes to the configured one.
C10_OverridePrecedence ==
  \A c \in CallIds :
    \A i \in DOMAIN calls[c].fetched :
      /\ (calls[c].url = OverrideUrl /\ options.webhookUrl = DefaultUrl)
           => /\ calls[c].fetched[i].url = OverrideUrl
              /\ calls[c].fetched[i].url # DefaultUrl
      /\ calls[c].url \in {JUndefined, JNull}
           => calls[c].fetched[i].url = options.webhookUrl

\* A call with an override, under a configured default, was delivered to the
\* override.
C10_Witness ==
  \E c \in CallIds :
    /\ calls[c].url = OverrideUrl
    /\ options.webhookUrl = DefaultUrl
    /\ Len(calls[c].fetched) = 1
    /\ calls[c].fetched[1].url = OverrideUrl

\* The message a caller's argument stands for: a bare string s is {text: s}.
Wrapped(message) == IF message.t = "str" THEN JObj([text |-> message]) ELSE message

\* The JSON text of the message each argument stands for.
SerializedMessage == [m \in OutboundMessages |-> JSONStringify(Wrapped(m))]

\* What each body handed to the transport decodes to.
DecodedBody ==
  [b \in {Delivery(DefaultUrl, Payload(m)).body : m \in OutboundMessages}
     |-> JSONParse(b)]

\* The violations of the outbound schema in each argument.
OutboundViolations == [m \in OutboundMessages |-> Validate(messageSchema, m, "")]

\* The destination a call's arguments and the options stand for.
EffectiveUrl(c) ==
  IF calls[c].url \in {JUndefined, JNull, JStr("")} THEN options.webhookUrl
  ELSE calls[c].url

\* C11: what sendMessage transmits for a bare string s is the message
\* {text: s}, and for an object message it is the caller's object.
C11_TransmittedMessage ==
  \A c \in CallIds :
    \A i \in DOMAIN calls[c].fetched :
      LET sent == DecodedBody[calls[c].fetched[i].body]
      IN  /\ sent.ok
          /\ calls[c].message.t = "str" => sent.val = JObj([text |-> calls[c].message])
          /\ calls[c].message.t = "obj" => sent.val = calls[c].message

\* The string Hello from Fastify! was transmitted as {text: ...}.
C11_Witness ==
  \E c \in CallIds :
    /\ calls[c].message = JStr("Hello from Fastify!")
    /\ Len(calls[c].fetched) = 1
    /\ DecodedBody[calls[c].fetched[1].body].val
         = JObj([text |-> JStr("Hello from Fastify!")])

\* C12: a sendMessage call whose message violates the outbound schema, and
\* that has a destination, rejects with an error that contains Invalid
\* message format and issues no delivery call.
C12_OutboundValidation ==
  \A c \in CallIds :
    ( /\ calls[c].phase # "idle"
      /\ Truthy(calls[c].targetUrl)
      /\ OutboundViolations[calls[c].message] # {} )
    => /\ calls[c].phase = "rejected"
       /\ Contains(calls[c].error, "Invalid message format")
       /\ calls[c].fetched = <<>>

\* C13: the body of every delivery call is payload= followed by the JSON
\* text of the message.
C13_FormBody ==
  \A c \in CallIds :
    \A i \in DOMAIN calls[c].fetched :
      calls[c].fetched[i].body = "payload=" \o SerializedMessage[calls[c].message]

C15_RemoteRefusal ==
  \A c \in CallIds :
    ( /\ calls[c].answer # Nothing
      /\ calls[c].answer.kind = "response"
      /\ ~calls[c].answer.ok )
    => /\ calls[c].phase = "rejected"
       /\ calls[c].result = Nothing
       /\ calls[c].error = "Failed to send message to Synology Chat: "
                             \o NatToStr(calls[c].answer.status) \o " "
                             \o calls[c].answer.text

\* The remote answered 400 invalid payload and the call rejected with both.
C15_Witness ==
  \E c \in CallIds :
    /\ calls[c].phase = "rejected"
    /\ calls[c].answer = Response(FALSE, 400, "invalid payload", TRUE)
    /\ calls[c].error = "Failed to send message to Synology Chat: 400 invalid payload"

\* C16: when the remote answers with a success response whose text is not
\* valid JSON (the empty text included), the call resolves with
\* {success: true, raw: <the response text>}.
C16_RawFallback ==
  \A c \in CallIds :
    ( /\ calls[c].answer # Nothing
      /\ calls[c].answer.kind = "response"
      /\ calls[c].answer.ok
      /\ ~JSONParse(calls[c].answer.text).ok )
    => /\ calls[c].phase = "resolved"
       /\ calls[c].result = JObj([success |-> JBool(TRUE),
                                  raw |-> JStr(calls[c].answer.text)])

\* The path of the attachment at index i - 1.
AttachmentPath(i) == "/attachments/" \o NatToStr(i - 1)

\* C17: when the attachment at some index has actions and no callback_id,
\* the outbound validator says invalid and reports callback_id as missing at
\* that attachment's path, and the inbound validator accepts the attachment.
C17_CallbackIdRequired ==
  report # Nothing =>
    \A i \in 1 .. candidate.plan.atts :
      (candidate.plan.acts > 0 /\ i \notin candidate.plan.callbacks)
      => /\ ~report.outbound.valid
         /\ Violation(AttachmentPath(i), "required", "callback_id")
              \in report.outbound.violations
         /\ \A v \in report.inbound.violations :
              SubSeq(v.path, 1, Len(AttachmentPath(i))) # AttachmentPath(i)

\* C18: a button callback (actions, callback_id, token, post_id, user and no
\* text), posted as a JSON body or in the form field payload, reaches the
\* handler as it was sent, and is answered 200 when the handler returns.
C18_ButtonCallbackAccepted ==
  \A r \in ReqIds :
    ( /\ reqs[r].phase # "idle"
      /\ reqs[r].input \in { SendJson(ButtonCallback),
                            SendForm(<<JsonField("payload", ButtonCallback)>>) } )
    => /\ reqs[r].invoked = 1
       /\ reqs[r].arg = ButtonCallback
       /\ (reqs[r].phase = "answered" /\ reqs[r].outcome # Nothing
           /\ reqs[r].outcome.kind = "return")
            => reqs[r].replies[1].status = 200

\* C19: a message with a string text and well-typed listed properties is
\* accepted by the inbound validator whatever unlisted top-level properties
\* it carries.
C19_InboundOpen ==
  (report # Nothing /\ candidate.plan.defect = "none")
  => /\ report.inbound.valid
     /\ report.inbound.violations = {}

\* A message with attachments, a user block and an unknown property was
\* accepted by the inbound validator.
C19_Witness ==
  /\ report # Nothing
  /\ candidate.plan.defect = "none"
  /\ candidate.plan.atts = 2
  /\ candidate.plan.top = {"user", "unknown_property"}
  /\ "user" \in DOMAIN candidate.message.o
  /\ report.inbound.valid

\* C20: a message with an unlisted property at the message, at an
\* attachment or at an action is invalid for the outbound validator, which
\* reports an additionalProperties violation at the object that carries it.
C20_OutboundClosed ==
  report # Nothing =>
    LET plan == candidate.plan
        unexpected(path, names) ==
          \E k \in names :
            Violation(path, "additionalProperties", k) \in report.outbound.violations
    IN  /\ plan.top # {} =>
             ~report.outbound.valid /\ unexpected("", plan.top)
        /\ plan.defect = "extraAttachment" =>
             ~report.outbound.valid /\ unexpected(AttachmentPath(plan.i), {"color"})
        /\ plan.defect = "extraAction" =>
             /\ ~report.outbound.valid
             /\ unexpected(AttachmentPath(plan.i) \o "/actions/" \o NatToStr(plan.j - 1),
                           {"confirm"})

\* An unlisted property on the second action of the second attachment was
\* reported.
C20_Witness ==
  /\ report # Nothing
  /\ candidate.plan.defect = "extraAction"
  /\ candidate.plan.i = 2
  /\ candidate.plan.j = 2
  /\ candidate.plan.top = {}
  /\ Violation("/attachments/1/actions/1", "additionalProperties", "confirm")
       \in report.outbound.violations

\* The path of the action at index j - 1 of the attachment at index i - 1.
ActionPath(i, j) == AttachmentPath(i) \o "/actions/" \o NatToStr(j - 1)

\* C21: an action whose type is not button, or whose style is not one of
\* the six listed, makes the message invalid for both validators, with an
\* enum violation at /attachments/i/actions/j/type (respectively /style).
C21_ActionEnums ==
  report # Nothing =>
    LET plan == candidate.plan
        rejected(field) ==
          \A verdict \in {report.inbound, report.outbound} :
            /\ ~verdict.valid
            /\ Violation(ActionPath(plan.i, plan.j) \o field, "enum", "")
                 \in verdict.violations
    IN  /\ plan.defect = "badType" => rejected("/type")
        /\ plan.defect = "badStyle" => rejected("/style")

\* The style purple on the second action of the second attachment was
\* reported at its path.
C21_Witness ==
  /\ report # Nothing
  /\ candidate.plan.defect = "badStyle"
  /\ candidate.plan.i = 2
  /\ candidate.plan.j = 2
  /\ candidate.message.o["attachments"].a[2].o["actions"].a[2].o["style"] = JStr("purple")
  /\ Violation("/attachments/1/actions/1/style", "enum", "")
       \in report.outbound.violations

\* C22: a message whose user_ids holds, at index i, an element that is not an
\* integer is invalid for both validators, with a type violation at
\* /user_ids/i.
C22_UserIdsIntegers ==
  (report # Nothing /\ candidate.plan.defect \in {"userIdString", "userIdFraction"})
  => \A verdict \in {report.inbound, report.outbound} :
       /\ ~verdict.valid
       /\ \E v \in verdict.violations :
            /\ v.kind = "type"
            /\ v.path = "/user_ids/" \o NatToStr(candidate.plan.i - 1)

InboundViolations ==
  [ input \in InboundInputs |->
      IF ParsedInput[input].statusCode = 0
      THEN Validate(webhookSchema.body, ParsedInput[input].body, "")
      ELSE {} ]

\* Whether the input is turned away before the handler.
TurnedAway(input) ==
  ParsedInput[input].statusCode # 0 \/ InboundViolations[input] # {}

C25_AwaitsHandler ==
  \A r \in ReqIds :
    /\ reqs[r].phase = "running" => reqs[r].replies = <<>> /\ reqs[r].outcome = Nothing
    /\ (reqs[r].valid /\ reqs[r].replies # <<>>) =>
         /\ reqs[r].outcome # Nothing
         /\ reqs[r].replies =
              << IF reqs[r].outcome.kind = "return"
                 THEN RouteResult(reqs[r].outcome.value)
                 ELSE RouteError(reqs[r].outcome.message) >>

\* One request waits for its handler, unanswered, while another has been
\* answered from its handler's result.
C25_Witness ==
  \E r1, r2 \in ReqIds :
    /\ reqs[r1].phase = "running"
    /\ reqs[r1].replies = <<>>
    /\ reqs[r2].phase = "answered"
    /\ reqs[r2].outcome = Returns(JObj([text |-> JStr("Message received!")]))
    /\ reqs[r2].replies[1].status = 200

\* The response a request's own body and own handler outcome stand for.
OwnReply(r) ==
  IF TurnedAway(reqs[r].input)
  THEN Reject(IF ParsedInput[reqs[r].input].statusCode # 0
              THEN ParsedInput[reqs[r].input].statusCode ELSE 400,
              IF ParsedInput[reqs[r].input].statusCode # 0
              THEN ParsedInput[reqs[r].input].message ELSE "body is invalid")
  ELSE IF reqs[r].outcome.kind = "return" THEN RouteResult(reqs[r].outcome.value)
  ELSE RouteError(reqs[r].outcome.message)

\* C27: under every interleaving, the response of a request is the one its
\* own body and its own handler outcome stand for (500 exactly when its own
\* handler threw), and a step of one request leaves every other request as
\* it was.
C27_RequestsIsolated ==
  /\ [](\A r \in ReqIds :
          reqs[r].phase = "answered" =>
            /\ TurnedAway(reqs[r].input) \/ reqs[r].outcome # Nothing
            /\ reqs[r].replies = <<OwnReply(r)>>
            /\ reqs[r].replies[1].status = 500
                 <=> (reqs[r].outcome # Nothing /\ reqs[r].outcome.kind = "throw"))
  /\ [][\A r1, r2 \in ReqIds :
          (r1 # r2 /\ reqs'[r1] # reqs[r1]) => reqs'[r2] = reqs[r2]]_vars

\* One request was answered 500 for its handler's fault, another 200.
C27_Witness ==
  \E r1, r2 \in ReqIds :
    /\ reqs[r1].outcome = Throws("boom")
    /\ reqs[r1].replies[1].status = 500
    /\ reqs[r2].outcome = Returns(JStr("OK"))
    /\ reqs[r2].replies[1].status = 200

\* C28: a request gets at most one response, an answered request exactly
\* one: 400 before the handler, 200 for a handler that returned, 500 for one
\* that threw; a completed handler has its response, and a request is
\* received and unanswered only while its handler has not completed.
C28_OneResponse ==
  \A r \in ReqIds :
    /\ Len(reqs[r].replies) <= 1
    /\ reqs[r].phase = "answered" <=> Len(reqs[r].replies) = 1
    /\ reqs[r].replies # <<>> =>
         \/ reqs[r].replies[1].status = 400 /\ reqs[r].invoked = 0
         \/ /\ reqs[r].replies[1].status = 200
            /\ reqs[r].outcome # Nothing /\ reqs[r].outcome.kind = "return"
         \/ /\ reqs[r].replies[1].status = 500
            /\ reqs[r].outcome # Nothing /\ reqs[r].outcome.kind = "throw"
    /\ reqs[r].outcome # Nothing => Len(reqs[r].replies) = 1
    /\ (reqs[r].phase # "idle" /\ reqs[r].replies = <<>>) =>
         /\ reqs[r].phase = "running"
         /\ reqs[r].valid
         /\ reqs[r].invoked = 1
         /\ reqs[r].outcome = Nothing

\* A request was turned away with 400 and another answered 500.
C28_Witness ==
  \E r1, r2 \in ReqIds :
    /\ reqs[r1].replies # <<>>
    /\ reqs[r1].replies[1].status = 400
    /\ reqs[r2].outcome = Throws("boom")
    /\ Len(reqs[r2].replies) = 1
    /\ reqs[r2].replies[1].status = 500

\* C30: when registration rejects for its options, the form parser, the
\* decorator and the route are not registered, and stay so.
C30_NothingRegistered ==
  plugin.state = "failed" =>
    /\ \/ options.required /\ options.onMessage = "absent"
       \/ options.onMessage = "notAFunction"
    /\ plugin.error \in {RequiredError, NotFunctionError}
    /\ ~plugin.parser
    /\ ~plugin.decorator
    /\ ~plugin.route
    /\ \A r \in ReqIds : reqs[r] = IdleRequest
    /\ \A c \in CallIds : calls[c] = IdleCall

\* Registration with an onMessage that is not a function has failed.
C30_Witness ==
  /\ plugin.state = "failed"
  /\ options.onMessage = "notAFunction"
  /\ ~options.required
  /\ plugin.error = NotFunctionError
  /\ ~plugin.parser

\* The terminal outcomes of a call.
SucceededParsed(call) ==
  /\ call.phase = "resolved"
  /\ call.answer.kind = "response" /\ call.answer.ok
  /\ JSONParse(call.answer.text) = [ok |-> TRUE, val |-> call.result]

SucceededRaw(call) ==
  /\ call.phase = "resolved"
  /\ call.answer.kind = "response" /\ call.answer.ok
  /\ ~JSONParse(call.answer.text).ok
  /\ call.result = JObj([success |-> JBool(TRUE), raw |-> JStr(call.answer.text)])

\* The delivery failed or the remote answered with a non-success response.
FailedTransport(call) ==
  /\ call.phase = "rejected"
  /\ Len(call.fetched) = 1
  /\ call.answer # Nothing
  /\ call.answer.kind = "failure" \/ ~call.answer.ok
  /\ call.error # ""

FailedNoDestination(call) ==
  /\ call.phase = "rejected"
  /\ call.fetched = <<>>
  /\ call.answer = Nothing
  /\ call.error = NoUrlError

\* C26: a call resolves its destination, serializes, transmits, in that
\* order, issues at most one delivery, and ends in exactly one of Succeeded
\* (parsed), Succeeded (raw-fallback), Failed (transport), Failed (no
\* destination).
C26_CallLifecycle ==
  \A c \in CallIds :
    /\ Len(calls[c].fetched) <= 1
    /\ calls[c].phase = "transmitting" =>
         /\ Truthy(calls[c].targetUrl)
         /\ Len(calls[c].fetched) = 1
         /\ calls[c].fetched[1].url = calls[c].targetUrl
         /\ calls[c].fetched[1].body = SerializedMessage[calls[c].message]
    /\ calls[c].phase \in {"resolved", "rejected"} =>
         \/ SucceededParsed(calls[c])
         \/ SucceededRaw(calls[c])
         \/ FailedTransport(calls[c])
         \/ FailedNoDestination(calls[c])

\* C29: a call whose url argument is null, undefined or the empty string
\* delivers to the configured webhookUrl, once, when there is one, and
\* rejects with the no-destination error and no delivery when there is none.
C29_FalsyOverride ==
  \A c \in CallIds :
    (calls[c].phase # "idle" /\ calls[c].url \in {JNull, JUndefined, JStr("")})
    => /\ options.webhookUrl = DefaultUrl =>
            /\ Len(calls[c].fetched) = 1
            /\ calls[c].fetched[1].url = DefaultUrl
            /\ calls[c].error # NoUrlError
       /\ options.webhookUrl = JUndefined =>
            /\ calls[c].phase = "rejected"
            /\ calls[c].error = NoUrlError
            /\ calls[c].fetched = <<>>

\* A call with the empty string for url was delivered to the default, and
\* with no default another was rejected.
C29_Witness ==
  \E c \in CallIds :
    /\ calls[c].url = JStr("")
    /\ options.webhookUrl = DefaultUrl
    /\ Len(calls[c].fetched) = 1
    /\ calls[c].fetched[1].url = JStr("https://example.com/webhook")

=============================================================================
